---- MODULE Spec2Model ----
(***************************************************************************)
(* Model of the data module of AvoidRickshaw (src/src/data.c): the session *)
(* state s_info, the two sensor callbacks, the fare and calorie            *)
(* calculators and the start/stop/initialize/finalize operations.          *)
(*                                                                         *)
(* Numbers.  The program computes in double; the model computes in exact   *)
(* fixed point:                                                            *)
(*   - accelerations and coordinates in units of 0.0001 (the program's     *)
(*     DOUBLE_COMPARIZON_THRESHOLD is one unit);                           *)
(*   - distances in whole metres;                                          *)
(*   - time in ticks of 0.01 hour;                                         *)
(*   - calories in units of 0.0000001 kcal.                                *)
(* A handler is an operator from a state record to a state record, so that *)
(* the calls a handler makes are composed in the order of the source; an   *)
(* action applies one handler to the current state.                        *)
(***************************************************************************)
EXTENDS Integers, Sequences, FiniteSets, TLC

VARIABLES
    location_manager,                \* "NULL" | "live" | "destroyed" (handle kept after destroy)
    loc_running,                     \* platform: the location manager delivers fixes
    acceleration_listener,           \* "NULL" | "live"
    acc_running,                     \* platform: the listener delivers samples
    total_distance,
    prev_latitude,
    prev_longitude,
    position_changed_callback,       \* TRUE: a function is attached, FALSE: NULL
    steps_count_changed_callback,
    fare_count_changed_callback,
    calorie_count_changed_callback,
    prev_acc_av,
    init_acc_av,
    steps_count,
    start_time,
    calories,
    initialized,                     \* data_initialize() has run
    aborted,                         \* the process died inside a handler
    now,                             \* the last time ecore_time_get() returned
    weight_pref,                     \* preference "weight" as last read: << >> absent, <<w>> stored
    calls,                           \* observer calls made by the last handler, in order
    inserts,                         \* insertIntoDb calls made by the last handler
    op,                              \* the last handler that ran
    tracking,                        \* session state of the controller: start .. stop
    fix_no,                          \* 0: no fix delivered since the session began, 1: some
    sample_no,                       \* 0: no sample delivered since the session began, 1: some
    fixes,                           \* stream specifications: the fixes delivered so far
    samples,                         \* stream specifications: the averages delivered so far
    drop_seen                        \* some sample lay more than TRESHOLD below the baseline

progvars == << location_manager, loc_running, acceleration_listener, acc_running,
               total_distance, prev_latitude, prev_longitude,
               position_changed_callback, steps_count_changed_callback,
               fare_count_changed_callback, calorie_count_changed_callback,
               prev_acc_av, init_acc_av, steps_count, start_time, calories,
               aborted, calls, inserts >>

envvars == << initialized, now, weight_pref >>

ghostvars == << op, tracking, fix_no, sample_no, fixes, samples, drop_seen >>

vars == << progvars, envvars, ghostvars >>

----------------------------------------------------------------------------
(* Program constants, in the model's units.                                *)

TRESHOLD == 2000
MAX_ACCEL_INIT_VALUE == 10000000
DOUBLE_COMPARIZON_THRESHOLD == 1
LAT_UNINITIATED == 2147483647
LONG_UNINITIATED == 2147483647
KM == 1000
DEFAULT_WEIGHT == 70

(* Bounds of the model.                                                    *)

MaxDistance == 2400
MaxSteps == 2
MaxTime == 1
MaxStream == 4
MaxFareDistance == 3200
MaxEvents == 5

(* Inputs of the model.                                                    *)

Latitudes == {237000, 237060}
Longitudes == {904000}
StreamLatitudes == {237000, 237060}
StreamLongitudes == {904000, 904060}
AccelX == {-30000, 39000, -21000}
AccelY == {0}
AccelZ == {0}
StreamAccelX == {-30000, 39000, 31500, -21000, 24000, 30000000}
Weights == {60}

----------------------------------------------------------------------------
(* Arithmetic of the source.                                               *)

fabs(x) == IF x < 0 THEN -x ELSE x

\* (int) of the double num/den: the fraction is cut off, towards zero
IntCast(num, den) == IF num >= 0 THEN num \div den ELSE -((-num) \div den)

\* (float) of a double holding the whole number n: exact while n has at most 24
\* significant bits, else rounded to 24 significant bits (half to even)
RECURSIVE FloatUlp(_, _)
FloatUlp(n, u) == IF n < 16777216 * u THEN u ELSE FloatUlp(n, 2 * u)

FloatCast(n) ==
    LET a == fabs(n)
        u == FloatUlp(a, 1)
        q == a \div u
        r == a % u
        m == IF 2 * r > u \/ (2 * r = u /\ q % 2 = 1) THEN (q + 1) * u ELSE q * u
    IN  IF n < 0 THEN -m ELSE m

----------------------------------------------------------------------------
(* The state the handlers work on: s_info, the platform objects behind its *)
(* two handles, and what the running handler has sent to its               *)
(* collaborators.                                                          *)

State ==
    [ location_manager |-> location_manager,
      loc_running |-> loc_running,
      acceleration_listener |-> acceleration_listener,
      acc_running |-> acc_running,
      total_distance |-> total_distance,
      prev_latitude |-> prev_latitude,
      prev_longitude |-> prev_longitude,
      position_changed_callback |-> position_changed_callback,
      steps_count_changed_callback |-> steps_count_changed_callback,
      fare_count_changed_callback |-> fare_count_changed_callback,
      calorie_count_changed_callback |-> calorie_count_changed_callback,
      prev_acc_av |-> prev_acc_av,
      init_acc_av |-> init_acc_av,
      steps_count |-> steps_count,
      start_time |-> start_time,
      calories |-> calories,
      aborted |-> FALSE,
      calls |-> << >>,
      inserts |-> << >> ]

\* the static initialiser of s_info
s_info ==
    [ location_manager |-> "NULL",
      loc_running |-> FALSE,
      acceleration_listener |-> "NULL",
      acc_running |-> FALSE,
      total_distance |-> 0,
      prev_latitude |-> LAT_UNINITIATED,
      prev_longitude |-> LONG_UNINITIATED,
      position_changed_callback |-> FALSE,
      steps_count_changed_callback |-> FALSE,
      fare_count_changed_callback |-> FALSE,
      calorie_count_changed_callback |-> FALSE,
      prev_acc_av |-> MAX_ACCEL_INIT_VALUE,
      init_acc_av |-> MAX_ACCEL_INIT_VALUE,
      steps_count |-> 0,
      start_time |-> 0,
      calories |-> 0,
      aborted |-> FALSE,
      calls |-> << >>,
      inserts |-> << >> ]

Becomes(s) ==
    /\ location_manager' = s.location_manager
    /\ loc_running' = s.loc_running
    /\ acceleration_listener' = s.acceleration_listener
    /\ acc_running' = s.acc_running
    /\ total_distance' = s.total_distance
    /\ prev_latitude' = s.prev_latitude
    /\ prev_longitude' = s.prev_longitude
    /\ position_changed_callback' = s.position_changed_callback
    /\ steps_count_changed_callback' = s.steps_count_changed_callback
    /\ fare_count_changed_callback' = s.fare_count_changed_callback
    /\ calorie_count_changed_callback' = s.calorie_count_changed_callback
    /\ prev_acc_av' = s.prev_acc_av
    /\ init_acc_av' = s.init_acc_av
    /\ steps_count' = s.steps_count
    /\ start_time' = s.start_time
    /\ calories' = s.calories
    /\ aborted' = s.aborted
    /\ calls' = s.calls
    /\ inserts' = s.inserts

\* a call through a callback pointer: the observer is told, or, the pointer
\* being NULL, the process dies
CallObserver(s, attached, name, value) ==
    IF s.aborted THEN s
    ELSE IF attached THEN [s EXCEPT !.calls = Append(@, <<name, value>>)]
    ELSE [s EXCEPT !.aborted = TRUE]

\* a platform call on a handle: on a destroyed handle the call reads freed
\* memory, and either returns or takes the process down (crash)
UseHandle(s, handle, crash) ==
    IF s.aborted THEN s
    ELSE IF handle = "destroyed" /\ crash THEN [s EXCEPT !.aborted = TRUE]
    ELSE s

----------------------------------------------------------------------------
(* Fare and calories.                                                      *)

\* a slip: the whole kilometres are taken before the subtraction
count_fare_value_cast_first(d) ==
    IF d > 1000 THEN 10 + (IntCast(d, KM) - 1) * 5 ELSE 0

\* the value count_fare() returns for a total distance of d metres
count_fare_value(d) ==
    LET baseFare == 10
        farePerUnitDistance == 5
        baseDistance == 1
    IN  IF d > 1000
        THEN IntCast(baseFare * KM + (d - baseDistance * KM) * farePerUnitDistance, KM)
        ELSE 0

count_fare(s) ==
    CallObserver(s, s.fare_count_changed_callback, "fare", count_fare_value(s.total_distance))

\* the calories for d metres (d a multiple of 100), k ticks and w kg
calorie_value(d, k, w) ==
    LET tempDistance == d \div 100
    IN  215 * tempDistance * tempDistance * tempDistance
            - 17650 * tempDistance * tempDistance + 871000 * tempDistance
            + 145770 * w * k

\* a slip: the calories are added to those held before
calorieBurner_accumulates(s, time, pref) ==
    IF s.aborted THEN s
    ELSE LET weight == IF pref # << >> THEN pref[1] ELSE DEFAULT_WEIGHT
             elapsedTime == time - s.start_time
             s1 == [s EXCEPT !.calories = @ + calorie_value(s.total_distance, elapsedTime, weight)]
         IN  CallObserver(s1, s1.calorie_count_changed_callback, "calories", s1.calories)

calorieBurner(s, time, pref) ==
    IF s.aborted THEN s
    ELSE LET weight == IF pref # << >> THEN pref[1] ELSE DEFAULT_WEIGHT
             elapsedTime == time - s.start_time
             s1 == [s EXCEPT !.calories = calorie_value(s.total_distance, elapsedTime, weight)]
         IN  CallObserver(s1, s1.calorie_count_changed_callback, "calories", s1.calories)

----------------------------------------------------------------------------
(* Geo-distance accumulator.                                               *)

\* the platform's location_manager_get_distance, in metres; the model's
\* coordinates lie on a grid on which it is 10 m per unit along each axis
location_manager_get_distance(lat1, lon1, lat2, lon2) ==
    10 * (fabs(lat1 - lat2) + fabs(lon1 - lon2))

\* "callback is called for the first time": both coordinates at the sentinel
PositionUninitiated(s) ==
    /\ fabs(s.prev_latitude - LAT_UNINITIATED) < DOUBLE_COMPARIZON_THRESHOLD
    /\ fabs(s.prev_longitude - LONG_UNINITIATED) < DOUBLE_COMPARIZON_THRESHOLD

\* a slip: the previous longitude is not moved on
_pos_updated_cb_keeps_longitude(s, latitude, longitude, dist_ok, time, pref) ==
    IF PositionUninitiated(s)
    THEN [s EXCEPT !.prev_latitude = latitude, !.prev_longitude = longitude]
    ELSE IF ~dist_ok THEN s
    ELSE LET distance == location_manager_get_distance(latitude, longitude,
                                                       s.prev_latitude, s.prev_longitude)
             s1 == [s EXCEPT !.total_distance = @ + distance,
                             !.prev_latitude = latitude]
             s2 == IF s1.position_changed_callback
                   THEN CallObserver(s1, TRUE, "distance", s1.total_distance)
                   ELSE s1
         IN  calorieBurner(count_fare(s2), time, pref)

\* a slip: a fix whose distance could not be computed still becomes the
\* previous position
_pos_updated_cb_moves_on_failure(s, latitude, longitude, dist_ok, time, pref) ==
    IF PositionUninitiated(s)
    THEN [s EXCEPT !.prev_latitude = latitude, !.prev_longitude = longitude]
    ELSE IF ~dist_ok
    THEN [s EXCEPT !.prev_latitude = latitude, !.prev_longitude = longitude]
    ELSE LET distance == location_manager_get_distance(latitude, longitude,
                                                       s.prev_latitude, s.prev_longitude)
             s1 == [s EXCEPT !.total_distance = @ + distance,
                             !.prev_latitude = latitude,
                             !.prev_longitude = longitude]
             s2 == IF s1.position_changed_callback
                   THEN CallObserver(s1, TRUE, "distance", s1.total_distance)
                   ELSE s1
         IN  calorieBurner(count_fare(s2), time, pref)

\* a slip: the calories are recomputed before the fare
_pos_updated_cb_calories_first(s, latitude, longitude, dist_ok, time, pref) ==
    IF PositionUninitiated(s)
    THEN [s EXCEPT !.prev_latitude = latitude, !.prev_longitude = longitude]
    ELSE IF ~dist_ok THEN s
    ELSE LET distance == location_manager_get_distance(latitude, longitude,
                                                       s.prev_latitude, s.prev_longitude)
             s1 == [s EXCEPT !.total_distance = @ + distance,
                             !.prev_latitude = latitude,
                             !.prev_longitude = longitude]
             s2 == IF s1.position_changed_callback
                   THEN CallObserver(s1, TRUE, "distance", s1.total_distance)
                   ELSE s1
         IN  count_fare(calorieBurner(s2, time, pref))

\* dist_ok: location_manager_get_distance returned LOCATIONS_ERROR_NONE.  The
\* accuracy read at the top of the callback is only logged.
_pos_updated_cb(s, latitude, longitude, dist_ok, time, pref) ==
    IF PositionUninitiated(s)
    THEN [s EXCEPT !.prev_latitude = latitude, !.prev_longitude = longitude]
    ELSE IF ~dist_ok THEN s
    ELSE LET distance == location_manager_get_distance(latitude, longitude,
                                                       s.prev_latitude, s.prev_longitude)
             s1 == [s EXCEPT !.total_distance = @ + distance,
                             !.prev_latitude = latitude,
                             !.prev_longitude = longitude]
             s2 == IF s1.position_changed_callback
                   THEN CallObserver(s1, TRUE, "distance", s1.total_distance)
                   ELSE s1
         IN  calorieBurner(count_fare(s2), time, pref)

\* create_ok, setcb_ok: location_manager_create and
\* location_manager_set_position_updated_cb returned LOCATIONS_ERROR_NONE
_data_distance_tracker_destroy(s, crash) ==
    IF s.aborted \/ s.location_manager = "NULL" THEN s
    ELSE IF s.location_manager = "live"
    THEN [s EXCEPT !.location_manager = "destroyed", !.loc_running = FALSE]
    ELSE UseHandle(s, s.location_manager, crash)

_data_distance_tracker_init(s, create_ok, setcb_ok) ==
    IF ~create_ok THEN s
    ELSE LET s1 == [s EXCEPT !.location_manager = "live", !.loc_running = FALSE]
         IN  IF ~setcb_ok THEN _data_distance_tracker_destroy(s1, FALSE) ELSE s1

\* what _data_distance_tracker_init returns
_data_distance_tracker_init_result(create_ok, setcb_ok) == create_ok /\ setcb_ok

\* start_ok: location_manager_start returned LOCATIONS_ERROR_NONE
_data_distance_tracker_start(s, create_ok, setcb_ok, start_ok, crash) ==
    IF s.aborted THEN s
    ELSE IF s.location_manager = "NULL" /\ ~_data_distance_tracker_init_result(create_ok, setcb_ok)
    THEN _data_distance_tracker_init(s, create_ok, setcb_ok)
    ELSE LET s1 == IF s.location_manager = "NULL"
                   THEN _data_distance_tracker_init(s, create_ok, setcb_ok)
                   ELSE s
             s2 == UseHandle(s1, s1.location_manager, crash)
         IN  IF ~s2.aborted /\ s2.location_manager = "live" /\ start_ok
             THEN [s2 EXCEPT !.loc_running = TRUE]
             ELSE s2

\* a slip: the distance is stored in whole kilometres
QueryData_in_kilometres(s, temp) ==
    [ distance |-> FloatCast(IntCast(s.total_distance, KM)),
      fare |-> temp,
      steps |-> s.steps_count,
      calories |-> FloatCast(s.calories) ]

\* the row _data_save_db hands to insertIntoDb; distance and calories are cast
\* to float (the calories at the resolution of the model's calorie unit)
QueryData(s, temp) ==
    [ distance |-> FloatCast(s.total_distance),
      fare |-> temp,
      steps |-> s.steps_count,
      calories |-> FloatCast(s.calories) ]

\* the persistence sink is asked to append the row msgdata and answers with the
\* status ret (TRUE: success); the log keeps the row and the answer
insertIntoDb(s, msgdata, ret) ==
    [s EXCEPT !.inserts = Append(@, msgdata @@ [ret |-> ret])]

\* a slip: || for &&
_data_save_db_either(s, insert_ok) ==
    LET s1 == count_fare(s)
        msgdata == QueryData(s1, count_fare_value(s1.total_distance))
    IN  IF s1.aborted THEN s1
        ELSE IF msgdata.steps > 0 \/ msgdata.distance > 0
        THEN insertIntoDb(s1, msgdata, insert_ok)
        ELSE s1

\* a slip: a failed append is tried once more
_data_save_db_retries(s, insert_ok) ==
    LET s1 == count_fare(s)
        msgdata == QueryData(s1, count_fare_value(s1.total_distance))
    IN  IF s1.aborted THEN s1
        ELSE IF msgdata.steps > 0 /\ msgdata.distance > 0
        THEN LET s2 == insertIntoDb(s1, msgdata, insert_ok)
             IN  IF insert_ok THEN s2 ELSE insertIntoDb(s2, msgdata, insert_ok)
        ELSE s1

\* insert_ok: insertIntoDb returned success; the status is logged, and so are
\* the rows read back afterwards
_data_save_db(s, insert_ok) ==
    LET s1 == count_fare(s)
        msgdata == QueryData(s1, count_fare_value(s1.total_distance))
    IN  IF s1.aborted THEN s1
        ELSE IF msgdata.steps > 0 /\ msgdata.distance > 0
        THEN insertIntoDb(s1, msgdata, insert_ok)
        ELSE s1

\* a slip: the totals are not re-initialized
_data_distance_tracker_stop_keeps_totals(s, stop_ok, crash, insert_ok) ==
    IF s.aborted \/ s.location_manager = "NULL" THEN s
    ELSE LET s1 == UseHandle(s, s.location_manager, crash)
             s2 == IF ~s1.aborted /\ s1.location_manager = "live" /\ stop_ok
                   THEN [s1 EXCEPT !.loc_running = FALSE]
                   ELSE s1
         IN  _data_save_db(s2, insert_ok)

\* stop_ok: location_manager_stop returned LOCATIONS_ERROR_NONE
_data_distance_tracker_stop(s, stop_ok, crash, insert_ok) ==
    IF s.aborted \/ s.location_manager = "NULL" THEN s
    ELSE LET s1 == UseHandle(s, s.location_manager, crash)
             s2 == IF ~s1.aborted /\ s1.location_manager = "live" /\ stop_ok
                   THEN [s1 EXCEPT !.loc_running = FALSE]
                   ELSE s1
             s3 == _data_save_db(s2, insert_ok)
         IN  IF s3.aborted THEN s3
             ELSE [s3 EXCEPT !.total_distance = 0, !.steps_count = 0, !.calories = 0]

----------------------------------------------------------------------------
(* Step detector.                                                          *)

\* the average of the three axes; the model's samples have an exact third
current_acc_av(x, y, z) == (fabs(x) + fabs(y) + fabs(z)) \div 3

\* "initial average acceleration value is not set"
AccelUninitiated(s) ==
    fabs(s.init_acc_av - MAX_ACCEL_INIT_VALUE) < DOUBLE_COMPARIZON_THRESHOLD

\* a slip: the drop is measured from the previous sample
StepDetected_from_prev(prev, init, current) ==
    prev > init /\ prev - current > TRESHOLD

\* a slip: >= for >
StepDetected_at_threshold(prev, init, current) ==
    prev > init /\ init - current >= TRESHOLD

\* a slip: the peak before the drop is not asked for
StepDetected_without_peak(prev, init, current) ==
    init - current > TRESHOLD

\* "a drop of acceleration average value"
StepDetected(prev, init, current) ==
    prev > init /\ init - current > TRESHOLD

\* a slip: a step also adds a stride of one metre to the distance
_accel_cb_adds_stride(s, x, y, z) ==
    LET current == current_acc_av(x, y, z)
    IN  IF AccelUninitiated(s)
        THEN [s EXCEPT !.init_acc_av = current, !.prev_acc_av = current]
        ELSE LET s1 == IF StepDetected(s.prev_acc_av, s.init_acc_av, current)
                       THEN LET s0 == [s EXCEPT !.steps_count = @ + 1,
                                                !.total_distance = @ + 1]
                            IN  IF s0.steps_count_changed_callback
                                THEN CallObserver(s0, TRUE, "steps", s0.steps_count)
                                ELSE s0
                       ELSE s
             IN  [s1 EXCEPT !.prev_acc_av = current]

\* a slip: a sample that registers a step does not become the previous sample
_accel_cb_keeps_prev(s, x, y, z) ==
    LET current == current_acc_av(x, y, z)
    IN  IF AccelUninitiated(s)
        THEN [s EXCEPT !.init_acc_av = current, !.prev_acc_av = current]
        ELSE IF StepDetected(s.prev_acc_av, s.init_acc_av, current)
        THEN LET s0 == [s EXCEPT !.steps_count = @ + 1]
             IN  IF s0.steps_count_changed_callback
                 THEN CallObserver(s0, TRUE, "steps", s0.steps_count)
                 ELSE s0
        ELSE [s EXCEPT !.prev_acc_av = current]

_accel_cb(s, x, y, z) ==
    LET current == current_acc_av(x, y, z)
    IN  IF AccelUninitiated(s)
        THEN [s EXCEPT !.init_acc_av = current, !.prev_acc_av = current]
        ELSE LET s1 == IF StepDetected(s.prev_acc_av, s.init_acc_av, current)
                       THEN LET s0 == [s EXCEPT !.steps_count = @ + 1]
                            IN  IF s0.steps_count_changed_callback
                                THEN CallObserver(s0, TRUE, "steps", s0.steps_count)
                                ELSE s0
                       ELSE s
             IN  [s1 EXCEPT !.prev_acc_av = current]

\* sensor_ok: sensor_is_supported, sensor_get_default_sensor and
\* sensor_create_listener all succeeded; setcb_ok: sensor_listener_set_event_cb did
_data_acceleration_sensor_init_handle(s, sensor_ok, setcb_ok) ==
    IF ~sensor_ok THEN s
    ELSE IF ~setcb_ok
    THEN [s EXCEPT !.acceleration_listener = "NULL", !.acc_running = FALSE]
    ELSE [s EXCEPT !.acceleration_listener = "live", !.acc_running = FALSE]

_data_acceleration_sensor_release_handle(s) ==
    IF s.aborted \/ s.acceleration_listener = "NULL" THEN s
    ELSE [s EXCEPT !.acceleration_listener = "NULL", !.acc_running = FALSE]

\* start_ok: sensor_listener_start returned SENSOR_ERROR_NONE
_data_acceleration_sensor_start(s, start_ok) ==
    IF s.aborted \/ s.acceleration_listener = "NULL" THEN s
    ELSE IF start_ok THEN [s EXCEPT !.acc_running = TRUE]
    ELSE s

\* stop_ok: sensor_listener_stop returned SENSOR_ERROR_NONE
_data_acceleration_sensor_stop(s, stop_ok) ==
    IF s.aborted \/ s.acceleration_listener = "NULL" THEN s
    ELSE IF ~stop_ok THEN s
    ELSE [s EXCEPT !.acc_running = FALSE,
                   !.init_acc_av = MAX_ACCEL_INIT_VALUE,
                   !.prev_acc_av = MAX_ACCEL_INIT_VALUE]

----------------------------------------------------------------------------
(* Session controller.                                                     *)

\* gps: data_gps_enabled_get() returned true
data_initialize(s, gps, create_ok, setcb_ok, sensor_ok, sensor_setcb_ok) ==
    LET s1 == IF gps THEN _data_distance_tracker_init(s, create_ok, setcb_ok) ELSE s
    IN  _data_acceleration_sensor_init_handle(s1, sensor_ok, sensor_setcb_ok)

data_finalize(s, crash) ==
    _data_acceleration_sensor_release_handle(_data_distance_tracker_destroy(s, crash))

\* a slip: the counters are re-initialized on start
data_tracking_start_resets(s, create_ok, setcb_ok, loc_start_ok, crash, acc_start_ok, time) ==
    LET s1 == _data_distance_tracker_start(s, create_ok, setcb_ok, loc_start_ok, crash)
        s2 == _data_acceleration_sensor_start(s1, acc_start_ok)
        s3 == IF s2.aborted THEN s2 ELSE [s2 EXCEPT !.start_time = time, !.total_distance = 0]
    IN  IF s3.aborted \/ s3.steps_count # 0 THEN s3
        ELSE LET s4 == CallObserver(s3, s3.steps_count_changed_callback, "steps", s3.steps_count)
                 s5 == CallObserver(s4, s4.position_changed_callback, "distance", s4.total_distance)
             IN  CallObserver(s5, s5.fare_count_changed_callback, "fare", 0)

data_tracking_start(s, create_ok, setcb_ok, loc_start_ok, crash, acc_start_ok, time) ==
    LET s1 == _data_distance_tracker_start(s, create_ok, setcb_ok, loc_start_ok, crash)
        s2 == _data_acceleration_sensor_start(s1, acc_start_ok)
        s3 == IF s2.aborted THEN s2 ELSE [s2 EXCEPT !.start_time = time]
    IN  IF s3.aborted \/ s3.steps_count # 0 THEN s3
        ELSE LET s4 == CallObserver(s3, s3.steps_count_changed_callback, "steps", s3.steps_count)
                 s5 == CallObserver(s4, s4.position_changed_callback, "distance", s4.total_distance)
             IN  CallObserver(s5, s5.fare_count_changed_callback, "fare", 0)

data_tracking_stop(s, loc_stop_ok, crash, insert_ok, acc_stop_ok) ==
    _data_acceleration_sensor_stop(_data_distance_tracker_stop(s, loc_stop_ok, crash, insert_ok),
                                   acc_stop_ok)

----------------------------------------------------------------------------
(* The application: state after construction and one action per operation. *)

\* whether a platform call fails is the platform's choice; a creation is
\* attempted only through a NULL handle, freed memory is read only through a
\* destroyed one, a distance is computed only from an initiated position, a
\* row is appended only for a session with steps and distance
Failures == BOOLEAN
CreateFailures == IF location_manager = "NULL" THEN BOOLEAN ELSE {FALSE}
Crashes == IF location_manager = "destroyed" THEN BOOLEAN ELSE {FALSE}
LocationFailures == IF location_manager = "live" THEN BOOLEAN ELSE {TRUE}
SensorFailures == IF acceleration_listener = "live" THEN BOOLEAN ELSE {TRUE}
DistanceFailures == IF PositionUninitiated(State) THEN {FALSE} ELSE BOOLEAN
InsertFailures ==
    IF location_manager # "NULL" /\ steps_count > 0 /\ total_distance > 0 THEN BOOLEAN ELSE {FALSE}

\* ecore_time_get() is monotonic: it returns a time not before the last one it
\* returned
ClockOutcomes == now .. MaxTime

\* the preference store holds whatever the settings view saved last: no weight,
\* or one of Weights
Preferences == {<< >>} \cup {<<w>> : w \in Weights}

\* a fix gets as far as calorieBurner(), which reads the clock and the preference
ReachesCalorieBurner(s, dist_ok) ==
    ~PositionUninitiated(s) /\ dist_ok /\ s.fare_count_changed_callback

InitState(s) ==
    /\ location_manager = s.location_manager
    /\ loc_running = s.loc_running
    /\ acceleration_listener = s.acceleration_listener
    /\ acc_running = s.acc_running
    /\ total_distance = s.total_distance
    /\ prev_latitude = s.prev_latitude
    /\ prev_longitude = s.prev_longitude
    /\ position_changed_callback = s.position_changed_callback
    /\ steps_count_changed_callback = s.steps_count_changed_callback
    /\ fare_count_changed_callback = s.fare_count_changed_callback
    /\ calorie_count_changed_callback = s.calorie_count_changed_callback
    /\ prev_acc_av = s.prev_acc_av
    /\ init_acc_av = s.init_acc_av
    /\ steps_count = s.steps_count
    /\ start_time = s.start_time
    /\ calories = s.calories
    /\ aborted = s.aborted
    /\ calls = s.calls
    /\ inserts = s.inserts

InitGhost ==
    /\ op = "none"
    /\ tracking = FALSE
    /\ fix_no = 0
    /\ sample_no = 0
    /\ fixes = << >>
    /\ samples = << >>
    /\ drop_seen = FALSE

Init ==
    /\ InitState(s_info)
    /\ initialized = FALSE
    /\ now = 0
    /\ weight_pref = << >>
    /\ InitGhost


\* the application initializes the data module once, when it is created, before
\* the view can deliver a click
Initialize ==
    /\ ~aborted /\ ~initialized
    /\ \E gps_off, create_err, setcb_err, sensor_err, sensor_setcb_err \in Failures :
           Becomes(data_initialize(State, ~gps_off, ~create_err, ~setcb_err,
                                   ~sensor_err, ~sensor_setcb_err))
    /\ initialized' = TRUE
    /\ op' = "data_initialize"
    /\ UNCHANGED << now, weight_pref, tracking, fix_no, sample_no, fixes, samples, drop_seen >>

Finalize ==
    /\ ~aborted /\ initialized
    /\ \E crash \in Crashes : Becomes(data_finalize(State, crash))
    /\ op' = "data_finalize"
    /\ UNCHANGED << envvars, tracking, fix_no, sample_no, fixes, samples, drop_seen >>

\* the view attaches its update functions; attaching one twice changes nothing
SetPositionChangedCallback ==
    /\ ~aborted /\ ~position_changed_callback
    /\ Becomes([State EXCEPT !.position_changed_callback = TRUE])
    /\ op' = "data_set_position_changed_callback"
    /\ UNCHANGED << envvars, tracking, fix_no, sample_no, fixes, samples, drop_seen >>

SetStepsCountChangedCallback ==
    /\ ~aborted /\ ~steps_count_changed_callback
    /\ Becomes([State EXCEPT !.steps_count_changed_callback = TRUE])
    /\ op' = "data_set_steps_count_changed_callback"
    /\ UNCHANGED << envvars, tracking, fix_no, sample_no, fixes, samples, drop_seen >>

SetFareChangedCallback ==
    /\ ~aborted /\ ~fare_count_changed_callback
    /\ Becomes([State EXCEPT !.fare_count_changed_callback = TRUE])
    /\ op' = "data_set_fare_changed_callback"
    /\ UNCHANGED << envvars, tracking, fix_no, sample_no, fixes, samples, drop_seen >>

SetCalorieChangedCallback ==
    /\ ~aborted /\ ~calorie_count_changed_callback
    /\ Becomes([State EXCEPT !.calorie_count_changed_callback = TRUE])
    /\ op' = "data_set_calorie_changed_callback"
    /\ UNCHANGED << envvars, tracking, fix_no, sample_no, fixes, samples, drop_seen >>

\* the Start button
Start ==
    /\ ~aborted /\ initialized
    /\ \E create_err, setcb_err \in CreateFailures, loc_start_err \in Failures,
          crash \in Crashes, acc_start_err \in SensorFailures, time \in ClockOutcomes :
           /\ Becomes(data_tracking_start(State, ~create_err, ~setcb_err, ~loc_start_err,
                                          crash, ~acc_start_err, time))
           /\ now' = time
    /\ op' = "data_tracking_start"
    /\ tracking' = TRUE
    /\ fix_no' = IF tracking THEN fix_no ELSE 0
    /\ sample_no' = IF tracking THEN sample_no ELSE 0
    /\ UNCHANGED << initialized, weight_pref, fixes, samples, drop_seen >>

\* the Stop button
Stop ==
    /\ ~aborted /\ initialized
    /\ \E loc_stop_err \in LocationFailures, crash \in Crashes,
          insert_err \in InsertFailures, acc_stop_err \in SensorFailures :
           Becomes(data_tracking_stop(State, ~loc_stop_err, crash, ~insert_err, ~acc_stop_err))
    /\ op' = "data_tracking_stop"
    /\ tracking' = FALSE
    /\ UNCHANGED << envvars, fix_no, sample_no, fixes, samples, drop_seen >>

\* the location manager, while it runs, delivers a fix
PositionUpdate ==
    /\ ~aborted /\ location_manager = "live" /\ loc_running
    /\ \E latitude \in Latitudes, longitude \in Longitudes, dist_err \in DistanceFailures :
       \E time \in (IF ReachesCalorieBurner(State, ~dist_err) THEN ClockOutcomes ELSE {now}),
          pref \in (IF ReachesCalorieBurner(State, ~dist_err) THEN Preferences ELSE {weight_pref}) :
           LET s == _pos_updated_cb(State, latitude, longitude, ~dist_err, time, pref)
           IN  /\ s.total_distance <= MaxDistance
               /\ Becomes(s)
               /\ now' = time
               /\ weight_pref' = pref
    /\ op' = "_pos_updated_cb"
    /\ fix_no' = 1
    /\ UNCHANGED << initialized, tracking, sample_no, fixes, samples, drop_seen >>

\* the accelerometer listener, while it runs, delivers a sample
AccelerationSample ==
    /\ ~aborted /\ acceleration_listener = "live" /\ acc_running
    /\ \E x \in AccelX, y \in AccelY, z \in AccelZ :
           LET s == _accel_cb(State, x, y, z)
           IN  /\ s.steps_count <= MaxSteps
               /\ Becomes(s)
    /\ op' = "_accel_cb"
    /\ sample_no' = 1
    /\ UNCHANGED << envvars, tracking, fix_no, fixes, samples, drop_seen >>

Next ==
    \/ SetPositionChangedCallback
    \/ SetStepsCountChangedCallback
    \/ SetFareChangedCallback
    \/ SetCalorieChangedCallback
    \/ Initialize
    \/ Start
    \/ PositionUpdate
    \/ AccelerationSample
    \/ Stop
    \/ Finalize

Spec == Init /\ [][Next]_vars

----------------------------------------------------------------------------
(* Streams: one event source alone, with the events delivered so far       *)
(* remembered.  The state they start in is the one the application is in   *)
(* after attaching its observers, data_initialize() and                    *)
(* data_tracking_start(), every platform call having succeeded.            *)

Attached ==
    [s_info EXCEPT !.position_changed_callback = TRUE,
                   !.steps_count_changed_callback = TRUE,
                   !.fare_count_changed_callback = TRUE,
                   !.calorie_count_changed_callback = TRUE]

Started ==
    data_tracking_start(data_initialize(Attached, TRUE, TRUE, TRUE, TRUE, TRUE),
                        TRUE, TRUE, TRUE, FALSE, TRUE, 0)

InitStream ==
    /\ InitState(Started)
    /\ initialized = TRUE
    /\ now = 0
    /\ weight_pref = << >>
    /\ op = "data_tracking_start"
    /\ tracking = TRUE
    /\ fix_no = 0
    /\ sample_no = 0
    /\ fixes = << >>
    /\ samples = << >>
    /\ drop_seen = FALSE

\* fixes only
FixStream ==
    /\ Len(fixes) < MaxStream
    /\ \E latitude \in StreamLatitudes, longitude \in StreamLongitudes,
          dist_err \in DistanceFailures :
           /\ Becomes(_pos_updated_cb(State, latitude, longitude, ~dist_err, now, weight_pref))
           /\ fixes' = Append(fixes, [latitude |-> latitude, longitude |-> longitude,
                                      dist_ok |-> ~dist_err])
    /\ op' = "_pos_updated_cb"
    /\ fix_no' = 1
    /\ UNCHANGED << envvars, tracking, sample_no, samples, drop_seen >>

SpecFixes == InitStream /\ [][FixStream]_vars

\* samples only
AccelStream ==
    /\ Len(samples) < MaxStream
    /\ \E x \in StreamAccelX, y \in AccelY, z \in AccelZ :
           /\ Becomes(_accel_cb(State, x, y, z))
           /\ samples' = Append(samples, current_acc_av(x, y, z))
           /\ drop_seen' = (drop_seen \/ (~AccelUninitiated(State)
                                          /\ init_acc_av - current_acc_av(x, y, z) > TRESHOLD))
    /\ op' = "_accel_cb"
    /\ sample_no' = 1
    /\ UNCHANGED << envvars, tracking, fix_no, fixes >>

SpecAccel == InitStream /\ [][AccelStream]_vars

\* fixes and samples in any order, up to MaxEvents events in all; a fix is
\* logged with its place in the order
FixEvent ==
    /\ Len(fixes) + Len(samples) < MaxEvents
    /\ \E latitude \in Latitudes, longitude \in Longitudes, dist_err \in DistanceFailures :
           /\ Becomes(_pos_updated_cb(State, latitude, longitude, ~dist_err, now, weight_pref))
           /\ fixes' = Append(fixes, [latitude |-> latitude, longitude |-> longitude,
                                      dist_ok |-> ~dist_err,
                                      at |-> Len(fixes) + Len(samples) + 1])
    /\ op' = "_pos_updated_cb"
    /\ fix_no' = 1
    /\ UNCHANGED << envvars, tracking, sample_no, samples, drop_seen >>

SampleEvent ==
    /\ Len(fixes) + Len(samples) < MaxEvents
    /\ \E x \in AccelX, y \in AccelY, z \in AccelZ :
           /\ Becomes(_accel_cb(State, x, y, z))
           /\ samples' = Append(samples, current_acc_av(x, y, z))
           /\ drop_seen' = (drop_seen \/ (~AccelUninitiated(State)
                                          /\ init_acc_av - current_acc_av(x, y, z) > TRESHOLD))
    /\ op' = "_accel_cb"
    /\ sample_no' = 1
    /\ UNCHANGED << envvars, tracking, fix_no, fixes >>

SpecBoth == InitStream /\ [][FixEvent \/ SampleEvent]_vars

\* count_fare() on every total distance up to MaxFareDistance metres
InitFare ==
    /\ \E d \in 0 .. MaxFareDistance : InitState([Attached EXCEPT !.total_distance = d])
    /\ initialized = TRUE
    /\ now = 0
    /\ weight_pref = << >>
    /\ InitGhost

FareCall ==
    /\ op = "none"
    /\ Becomes(count_fare(State))
    /\ op' = "count_fare"
    /\ UNCHANGED << envvars, tracking, fix_no, sample_no, fixes, samples, drop_seen >>

SpecFare == InitFare /\ [][FareCall]_vars

----------------------------------------------------------------------------
(* Claims.                                                                 *)

HasCall(log, name) == \E i \in 1 .. Len(log) : log[i][1] = name

\* C1: the first position fix of a session (the first fix delivered after the
\* data_tracking_start() that began it, also when an earlier session received
\* fixes and was stopped) leaves total_distance unchanged and does not call
\* the distance observer.
C1_FirstFixIsCalibration ==
    [][(op' = "_pos_updated_cb" /\ tracking /\ fix_no = 0 /\ ~aborted')
          => (total_distance' = total_distance /\ ~HasCall(calls', "distance"))]_vars

\* C2: while a session is tracking steps_count never decreases, and a
\* data_tracking_start() that follows a data_tracking_stop() finds steps_count
\* at 0, whatever it was before the stop.
C2_StepsMonotoneAndReset ==
    [][/\ (tracking /\ op' # "data_tracking_stop") => steps_count' >= steps_count
       /\ (op = "data_tracking_stop" /\ op' = "data_tracking_start") => steps_count' = 0]_vars

\* C3: a data_tracking_stop() calls insertIntoDb only if steps_count > 0 and
\* total_distance > 0 held when it was called, and a data_tracking_stop() that
\* returns with both positive calls it, once.
C3_SaveIffBothPositive ==
    [][op' = "data_tracking_stop"
          => /\ inserts' # << >> => (steps_count > 0 /\ total_distance > 0)
             /\ (steps_count > 0 /\ total_distance > 0 /\ ~aborted') => Len(inserts') = 1]_vars

\* a stop has just appended the record of a session
C3_Witness ==
    op = "data_tracking_stop" /\ Len(inserts) = 1 /\ inserts[1].steps > 0 /\ ~aborted

RECURSIVE SumOfDistances(_)
SumOfDistances(fs) ==
    IF Len(fs) < 2 THEN 0
    ELSE SumOfDistances(SubSeq(fs, 1, Len(fs) - 1))
            + location_manager_get_distance(fs[Len(fs)].latitude, fs[Len(fs)].longitude,
                                            fs[Len(fs) - 1].latitude, fs[Len(fs) - 1].longitude)

AllDistancesComputed(fs) == \A i \in 1 .. Len(fs) : fs[i].dist_ok

\* C4: after N >= 2 fixes delivered from an unset prev_position, every distance
\* computation having succeeded, total_distance is the sum of the distances
\* between consecutive fixes (the first fix adds nothing).
C4_TotalIsSumOfDistances ==
    (Len(fixes) >= 2 /\ AllDistancesComputed(fixes)) => total_distance = SumOfDistances(fixes)

\* three moves, all measured, not all of the same length
C4_Witness ==
    /\ Len(fixes) = 4 /\ AllDistancesComputed(fixes)
    /\ total_distance = 2400
    /\ fixes[2].longitude # fixes[1].longitude
    /\ fixes[3].latitude # fixes[2].latitude /\ fixes[3].longitude # fixes[2].longitude

\* C5: count_fare() reports 0 for a total distance of at most 1000 m and
\* 10 + floor((d/1000 - 1) * 5) above it; fare(999) = 0, fare(1000) = 0,
\* fare(2000) = 15, fare(3000) = 20.
C5_Fare ==
    op = "count_fare"
       => /\ calls = << <<"fare", IF total_distance <= 1000 THEN 0
                                  ELSE 10 + ((total_distance - 1000) * 5) \div 1000>> >>
          /\ total_distance = 999 => calls[1][2] = 0
          /\ total_distance = 1000 => calls[1][2] = 0
          /\ total_distance = 2000 => calls[1][2] = 15
          /\ total_distance = 3000 => calls[1][2] = 20

\* the fare of 2999 m is still 19
C5_Witness ==
    op = "count_fare" /\ total_distance = 2999 /\ calls = << <<"fare", 19>> >>

\* C6 as stated: the averages 1.0, 1.3, 1.05 register exactly one step.
C6_OneStep ==
    samples = <<10000, 13000, 10500>> => steps_count = 1

\* C6 as amended: the averages 1.0, 1.3, 1.05 register no step, the third lying
\* above the baseline 1.0 and not more than TRESHOLD below it.
C6_NoStep ==
    samples = <<10000, 13000, 10500>>
       => (steps_count = 0 /\ init_acc_av = 10000 /\ prev_acc_av = 10500 /\ calls = << >>)

C6_Witness ==
    samples = <<10000, 13000, 10500>> /\ op = "_accel_cb"

\* C7: the first acceleration sample of a session (the first delivered after
\* the data_tracking_start() that began it) is a calibration sample: it sets
\* init_acc_av and prev_acc_av to its average and registers no step, also
\* when the listener stop of the session before reported an error.
C7_FirstSampleIsCalibration ==
    [][(op' = "_accel_cb" /\ tracking /\ sample_no = 0 /\ ~aborted')
          => (init_acc_av' = prev_acc_av' /\ steps_count' = steps_count
              /\ ~HasCall(calls', "steps"))]_vars

\* C8: a data_tracking_start() that runs with steps_count = 0 and returns has
\* told the steps observer 0, the distance observer 0 and the fare observer 0.
C8_StartEmitsZeros ==
    [][(op' = "data_tracking_start" /\ steps_count = 0 /\ ~aborted')
          => calls' = << <<"steps", 0>>, <<"distance", 0>>, <<"fare", 0>> >>]_vars

\* C10: total_distance decreases in no step but a data_tracking_stop(), which
\* sets it to 0: not in data_tracking_start(), not on a sample, not on a fix.
C10_DistanceMonotone ==
    [][total_distance' < total_distance
          => (op' = "data_tracking_stop" /\ total_distance' = 0)]_vars

\* a stop has just reset a session that had covered 1200 m (fare 11)
C10_Witness ==
    /\ op = "data_tracking_stop" /\ total_distance = 0 /\ ~aborted
    /\ calls = << <<"fare", 11>> >>

\* C9: as long as no sample's average lies more than TRESHOLD below the
\* baseline init_acc_av, steps_count stays 0.
C9_NoDropNoStep ==
    ~drop_seen => steps_count = 0

\* a peak above the baseline followed by a trough exactly TRESHOLD below it
C9_Witness ==
    /\ ~drop_seen /\ Len(samples) = 4
    /\ samples[1] = 10000 /\ samples[2] = 13000 /\ samples[3] = 8000 /\ samples[4] = 13000

\* the fare of spec section 4.3 for d metres
FareOf(d) == IF d <= 1000 THEN 0 ELSE 10 + ((d - 1000) * 5) \div 1000

\* C11: with one platform source only, a start/stop cycle works for that
\* source: with the accelerometer alone (location_manager NULL) a
\* data_tracking_stop() that stops the listener leaves steps_count at 0 and
\* the calibration state at the sentinel; with the location source alone a
\* data_tracking_stop() leaves total_distance at 0.
C11_DegradedCycle ==
    [][(op' = "data_tracking_stop" /\ ~aborted')
          => /\ (location_manager = "NULL" /\ acceleration_listener = "live"
                    /\ acc_running /\ ~acc_running')
                   => /\ steps_count' = 0
                      /\ init_acc_av' = MAX_ACCEL_INIT_VALUE
                      /\ prev_acc_av' = MAX_ACCEL_INIT_VALUE
             /\ (location_manager = "live" /\ acceleration_listener = "NULL")
                   => total_distance' = 0]_vars

\* C12: a data_finalize() that follows a data_finalize() finds no collaborator
\* left to release and changes nothing.
C12_FinalizeIdempotent ==
    [][(op = "data_finalize" /\ op' = "data_finalize")
          => /\ location_manager = "NULL" /\ acceleration_listener = "NULL"
             /\ UNCHANGED progvars]_vars

\* C13: a data_tracking_stop() that returns has asked the persistence sink to
\* append at most once, and, whatever the sink answered, has reset
\* total_distance, steps_count and calories to 0 (the location manager not
\* being NULL, as it is for every session that has a distance to save).
C13_AppendOnceResetRegardless ==
    [][(op' = "data_tracking_stop" /\ ~aborted')
          => /\ Len(inserts') <= 1
             /\ (inserts' # << >> \/ location_manager # "NULL")
                   => (total_distance' = 0 /\ steps_count' = 0 /\ calories' = 0)]_vars

\* the sink refused the row, and the counters are reset all the same
C13_Witness ==
    /\ op = "data_tracking_stop" /\ ~aborted
    /\ Len(inserts) = 1 /\ ~inserts[1].ret
    /\ total_distance = 0 /\ steps_count = 0 /\ calories = 0

\* C14: between a data_tracking_stop() and the next data_tracking_start() no
\* position fix and no acceleration sample changes total_distance, steps_count
\* or calories, also when a platform stop call reported an error.
C14_IdleIgnoresEvents ==
    [][(~tracking /\ op' \in {"_pos_updated_cb", "_accel_cb"} /\ ~aborted')
          => (total_distance' = total_distance /\ steps_count' = steps_count
              /\ calories' = calories)]_vars

\* C15: a sample that is not a calibration sample adds exactly 1 to
\* steps_count and tells the steps observer the new count if and only if
\* prev_acc_av > init_acc_av and init_acc_av - average > TRESHOLD; otherwise
\* steps_count is unchanged and nobody is told.  Either way prev_acc_av becomes
\* the average of the sample.
C15_StepRule ==
    [][(op' = "_accel_cb" /\ ~AccelUninitiated(State))
          => LET current == samples'[Len(samples')]
             IN  /\ prev_acc_av' = current
                 /\ init_acc_av' = init_acc_av
                 /\ IF prev_acc_av > init_acc_av /\ init_acc_av - current > TRESHOLD
                    THEN /\ steps_count' = steps_count + 1
                         /\ calls' = << <<"steps", steps_count + 1>> >>
                    ELSE /\ steps_count' = steps_count
                         /\ calls' = << >>]_vars

\* a peak of 1.3 over the baseline 1.0, then a trough of 0.7: one step
C15_Witness ==
    /\ samples = <<10000, 13000, 7000>> /\ op = "_accel_cb"
    /\ steps_count = 1 /\ calls = << <<"steps", 1>> >> /\ prev_acc_av = 7000

\* C16: a data_tracking_stop() that returns leaves init_acc_av and prev_acc_av
\* at the sentinel and prev_latitude, prev_longitude as they were; a seeded
\* previous position is never unset again, and a fix that adds distance adds
\* the distance from the previous position, whichever session set it.
C16_ResetAsymmetry ==
    [][/\ (op' = "data_tracking_stop" /\ ~aborted')
             => /\ init_acc_av' = MAX_ACCEL_INIT_VALUE
                /\ prev_acc_av' = MAX_ACCEL_INIT_VALUE
                /\ prev_latitude' = prev_latitude
                /\ prev_longitude' = prev_longitude
       /\ ~(prev_latitude = LAT_UNINITIATED /\ prev_longitude = LONG_UNINITIATED)
             => ~(prev_latitude' = LAT_UNINITIATED /\ prev_longitude' = LONG_UNINITIATED)
       /\ (op' = "_pos_updated_cb" /\ total_distance' # total_distance)
             => total_distance' = total_distance
                    + location_manager_get_distance(prev_latitude', prev_longitude',
                                                    prev_latitude, prev_longitude)]_vars

\* the fixes that were accepted: the calibration fix and the measured ones
Accepted(fs) == SelectSeq(fs, LAMBDA f : f.dist_ok)

\* C17: a fix that is not a calibration fix and whose distance computation
\* fails changes none of total_distance, prev_latitude, prev_longitude,
\* calories and tells no observer; a fix whose distance is computed is
\* measured from the last accepted fix.
C17_FailedDistanceDropsFix ==
    [][(op' = "_pos_updated_cb" /\ ~PositionUninitiated(State))
          => LET f == fixes'[Len(fixes')]
                 last == Accepted(fixes)[Len(Accepted(fixes))]
             IN  IF ~f.dist_ok
                 THEN /\ UNCHANGED << total_distance, prev_latitude, prev_longitude, calories >>
                      /\ calls' = << >>
                 ELSE total_distance' = total_distance
                          + location_manager_get_distance(f.latitude, f.longitude,
                                                          last.latitude, last.longitude)]_vars

\* a fix 600 m north is dropped; the next, 600 m north and 600 m east, counts
\* 1200 m from the first
C17_Witness ==
    /\ Len(fixes) = 3 /\ ~fixes[2].dist_ok /\ fixes[3].dist_ok
    /\ fixes[2].latitude # fixes[1].latitude
    /\ fixes[3].latitude = fixes[2].latitude /\ fixes[3].longitude # fixes[2].longitude
    /\ total_distance = 1200

\* C18: an accepted fix (not a calibration fix, distance computed) tells the
\* distance observer the new total_distance, then the fare observer the fare
\* of it, then the calorie observer the recomputed calories, each once; any
\* other fix tells nobody.
C18_NotificationOrder ==
    [][op' = "_pos_updated_cb"
          => IF ~PositionUninitiated(State) /\ fixes'[Len(fixes')].dist_ok
             THEN /\ calories' = calorie_value(total_distance', now - start_time, DEFAULT_WEIGHT)
                  /\ calls' = << <<"distance", total_distance'>>,
                                 <<"fare", FareOf(total_distance')>>,
                                 <<"calories", calories'>> >>
             ELSE calls' = << >>]_vars

\* the fix that takes the total to 1200 m
C18_Witness ==
    /\ op = "_pos_updated_cb"
    /\ calls = << <<"distance", 1200>>, <<"fare", 11>>, <<"calories", 8281920>> >>

\* C19: the row a data_tracking_stop() appends holds the totals as they were
\* before the reset (distance and calories as float), with the fare of that
\* distance, and the fare observer is told that fare during the stop.
C19_RecordHoldsTotals ==
    [][(op' = "data_tracking_stop" /\ inserts' # << >>)
          => /\ inserts'[1].distance = FloatCast(total_distance)
             /\ inserts'[1].distance = total_distance
             /\ inserts'[1].steps = steps_count
             /\ inserts'[1].fare = FareOf(total_distance)
             /\ inserts'[1].calories = FloatCast(calories)
             /\ calls' = << <<"fare", FareOf(total_distance)>> >>]_vars

\* the record of a session of 1200 m with steps, fare 11
C19_Witness ==
    /\ op = "data_tracking_stop" /\ Len(inserts) = 1
    /\ inserts[1].distance = 1200 /\ inserts[1].fare = 11 /\ inserts[1].steps > 0
    /\ inserts[1].calories > 0
    /\ calls = << <<"fare", 11>> >> /\ total_distance = 0 /\ steps_count = 0

\* C20: once a sample has been delivered in a session, and so has seeded
\* init_acc_av, no later sample of the session changes init_acc_av, whatever
\* the averages of the samples, the sentinel value 1000 included.
C20_BaselineFrozen ==
    [][(op' = "_accel_cb" /\ samples # << >>) => init_acc_av' = init_acc_av]_vars

\* C21: the calories calorieBurner() stores and reports after a position fix
\* are a function of total_distance, the time elapsed since start_time and the
\* weight preference (DEFAULT_WEIGHT when absent) alone: not of the calories
\* held before, nor of the events that led to this total_distance.
C21_CaloriesRecomputed ==
    [][(op' = "_pos_updated_cb" /\ ~aborted' /\ HasCall(calls', "calories"))
          => LET weight == IF weight_pref' # << >> THEN weight_pref'[1] ELSE DEFAULT_WEIGHT
             IN  /\ calories' = calorie_value(total_distance', now' - start_time, weight)
                 /\ calls'[Len(calls')] = <<"calories", calories'>>]_vars

\* the second measured fix of a session, 0.01 h after its start, weight 60:
\* the calories of the first are not part of the result
C21_Witness ==
    /\ op = "_pos_updated_cb" /\ ~aborted /\ calls # << >>
    /\ total_distance = 1200 /\ start_time = 0 /\ now = 1 /\ weight_pref = <<60>>
    /\ calories = 17028120
    /\ calls[Len(calls)] = <<"calories", 17028120>>

\* C22: no operation calls an observer through a NULL pointer, so that no
\* operation run on handles that are NULL or live takes the process down.
C22_NoCallThroughNull ==
    [][location_manager # "destroyed" => ~aborted']_vars

\* C23: in every reachable state each stored handle is NULL or refers to a
\* live collaborator: none is left to be passed, destroyed, to a platform call.
C23_HandlesLiveOrNull ==
    /\ location_manager \in {"NULL", "live"}
    /\ acceleration_listener \in {"NULL", "live"}

\* C24: the sample that follows a sample which registered a step registers
\* none, whatever its value.
C24_NoConsecutiveSteps ==
    [][(op = "_accel_cb" /\ HasCall(calls, "steps") /\ op' = "_accel_cb")
          => (steps_count' = steps_count /\ ~HasCall(calls', "steps"))]_vars

\* a step at the trough 0.7, and a second trough 0.7 right after it
C24_Witness ==
    samples = <<10000, 13000, 7000, 7000>> /\ steps_count = 1 /\ calls = << >>

\* the step detector of spec section 4.2 run over the averages ss alone
RECURSIVE DetectorAfter(_)
DetectorAfter(ss) ==
    IF ss = << >>
    THEN [init |-> MAX_ACCEL_INIT_VALUE, prev |-> MAX_ACCEL_INIT_VALUE, steps |-> 0]
    ELSE LET d == DetectorAfter(SubSeq(ss, 1, Len(ss) - 1))
             a == ss[Len(ss)]
         IN  IF d.init = MAX_ACCEL_INIT_VALUE
             THEN [init |-> a, prev |-> a, steps |-> d.steps]
             ELSE [init |-> d.init, prev |-> a,
                   steps |-> d.steps + IF d.prev > d.init /\ d.init - a > TRESHOLD
                                       THEN 1 ELSE 0]

\* C25: a position fix changes none of steps_count, init_acc_av, prev_acc_av,
\* and an acceleration sample none of total_distance, prev_latitude,
\* prev_longitude, calories; in every interleaving of the fixes and the samples
\* of a session total_distance is what the fixes alone give and steps_count
\* what the samples alone give.
C25_SourcesIndependent ==
    [][/\ op' = "_pos_updated_cb" => UNCHANGED << steps_count, init_acc_av, prev_acc_av >>
       /\ op' = "_accel_cb"
             => UNCHANGED << total_distance, prev_latitude, prev_longitude, calories >>
       /\ total_distance' = SumOfDistances(Accepted(fixes'))
       /\ steps_count' = DetectorAfter(samples').steps]_vars

\* a calibration fix and a measured fix of 600 m delivered between the three
\* samples of a step
C25_Witness ==
    /\ Len(fixes) = 2 /\ Len(samples) = 3
    /\ fixes[1].at = 2 /\ fixes[2].at = 4
    /\ steps_count = 1 /\ total_distance = 600

====
